---------------------------- MODULE Spec2Model ----------------------------
(***************************************************************************)
(* Model of the PM2.5 dashboard front end.                                 *)
(*                                                                         *)
(*   - the chat session of src/frontend/static/js/chat.js, lines 1-70      *)
(*     (sendMessage / addMessage / removeMessage);                         *)
(*   - the dashboard synchronisation of chat.js, lines 71-317              *)
(*     (loadDashboardData and its three loaders);                          *)
(*   - the earlier dashboard variant of src/unnamed/part_000               *)
(*     (loadDashboardData and its four loaders), definitions suffixed _p0. *)
(*                                                                         *)
(* Texts are sequences of tokens: a typed text is a sequence of the        *)
(* characters " " and "a", a fixed string of the program is a one-token    *)
(* sequence.  The empty string is << >>.                                   *)
(* PM2.5 values are integers in hundredths of a microgram per cubic metre  *)
(* (15.4 is 1540); a value formatted by toFixed(1) is a sign and a number  *)
(* of tenths.                                                              *)
(***************************************************************************)
EXTENDS Integers, Sequences, FiniteSets, TLC

VARIABLES
    chatInput,      \* value of the #chatInput element
    log,            \* children of #chatMessages, in document order
    clock,          \* the last value Date.now() returned
    reqs,           \* sendMessage invocations suspended at an await
    nsent,          \* number of fetch('/api/chat') requests issued so far
    dom,            \* the text, class and colour of the dashboard elements
    forecastChart,  \* the global forecastChart: null or a chart handle
    historyChart,   \* the global historyChart: null or a chart handle
    liveCharts,     \* per canvas, the charts constructed and not destroyed
    pending,        \* per endpoint, the number of fetches not yet answered
    current,        \* history variable: the reading on display, or Absent
    everSucceeded,  \* history variable: a current reading was displayed once
    last            \* the operation that made the last step, and its case

chatVars == <<chatInput, log, clock, reqs, nsent>>

dashVars == <<dom, forecastChart, historyChart, liveCharts, pending, current,
              everSucceeded>>

vars == <<chatInput, log, clock, reqs, nsent, dom, forecastChart, historyChart,
          liveCharts, pending, current, everSucceeded, last>>

----------------------------------------------------------------------------
(* Bounds of the model *)

\* number of chat requests issued in one behaviour
MaxSends == 2
\* largest value of the millisecond clock
MaxClock == 3

----------------------------------------------------------------------------
(* JavaScript values *)

Undefined == [t |-> "undefined"]
JNull == [t |-> "null"]
Str(s) == [t |-> "str", v |-> s]
Num(n) == [t |-> "num", v |-> n]

\* ToBoolean of a value that is undefined, null, a string or a number
Truthy(x) ==
    CASE x.t = "undefined" -> FALSE
      [] x.t = "null" -> FALSE
      [] x.t = "str" -> x.v # << >>
      [] x.t = "num" -> x.v # 0
      [] OTHER -> TRUE

----------------------------------------------------------------------------
(* Chat session: chat.js 1-70 *)

ThinkingText == << "Thinking..." >>
ApologyText == << "Sorry, I encountered an error. Please try again." >>
ConnectText == << "Sorry, I couldn't connect to the server. Please try again later." >>

\* what the user can type into the input: nothing, white space only, a
\* word, a word within white space
Texts == { << >>, << " ", " " >>, << "a" >>, << " ", "a", " " >> }

RECURSIVE TrimStart(_)
TrimStart(s) ==
    IF s # << >> /\ Head(s) = " " THEN TrimStart(Tail(s)) ELSE s

RECURSIVE TrimEnd(_)
TrimEnd(s) ==
    IF s # << >> /\ s[Len(s)] = " " THEN TrimEnd(SubSeq(s, 1, Len(s) - 1)) ELSE s

\* a mutant of Trim: the value of the input is used as typed
TrimNothing(s) == s

\* String.prototype.trim
Trim(s) == TrimEnd(TrimStart(s))

\* Date.now(): the clock does not run backwards, and two reads may fall
\* in the same millisecond
DateNow == { t \in clock..(clock + 1) : t <= MaxClock }

\* document.getElementById on the chat log: the first element, in document
\* order, that carries the id; 0 when there is none
GetElementById(l, id) ==
    IF \E i \in 1..Len(l) : l[i].id = id
    THEN CHOOSE i \in 1..Len(l) : l[i].id = id /\ \A j \in 1..(i - 1) : l[j].id # id
    ELSE 0

\* the log after addMessage(text, sender, isLoading) at clock value t; the
\* id of the new element is 'msg-' + t
AddMessage(l, text, sender, isLoading, t) ==
    Append(l, [id |-> t, sender |-> sender, text |-> text, isLoading |-> isLoading])

\* the log after removeMessage(messageId)
RemoveMessage(l, messageId) ==
    LET i == GetElementById(l, messageId)
    IN  IF i = 0 THEN l
        ELSE SubSeq(l, 1, i - 1) \o SubSeq(l, i + 1, Len(l))

\* the user edits the input field
TypeInput ==
    /\ \E text \in Texts : chatInput' = text
    /\ chatInput' # chatInput
    /\ last' = [op |-> "TypeInput", kind |-> "typed"]
    /\ UNCHANGED <<log, clock, reqs, nsent>>
    /\ UNCHANGED dashVars

\* sendMessage, from the call to the first await
sendMessage ==
    LET message == Trim(chatInput)
    IN  IF message = << >>
        THEN /\ last' = [op |-> "sendMessage", kind |-> "ignored"]
             /\ UNCHANGED chatVars
             /\ UNCHANGED dashVars
        ELSE /\ nsent < MaxSends
             /\ \E t1 \in DateNow :
                  \E t2 \in { t \in t1..(t1 + 1) : t <= MaxClock } :
                     /\ log' = AddMessage(AddMessage(log, message, "user", FALSE, t1),
                                          ThinkingText, "bot", TRUE, t2)
                     /\ clock' = t2
                     /\ reqs' = reqs \cup { [n |-> nsent + 1, loadingId |-> t2,
                                             message |-> message] }
             /\ chatInput' = << >>
             /\ nsent' = nsent + 1
             /\ last' = [op |-> "sendMessage", kind |-> "sent"]
             /\ UNCHANGED dashVars

\* the bodies /api/chat can answer with, as response.json() parses them
ChatPayloads ==
    { [t |-> "obj", response |-> r, error |-> e] :
        r \in { Undefined, Str(<< >>), Str(<< "reply" >>) },
        e \in { Undefined, Str(<< >>), Str(<< "boom" >>) } }

PayloadKind(data) ==
    IF Truthy(data.response) THEN "success"
    ELSE IF Truthy(data.error) THEN "apperror"
    ELSE "neither"

\* the fetch of request r is rejected, or the body is not JSON: the catch
\* block runs
chatTransportFailure(r) ==
    /\ r \in reqs
    /\ \E kind \in { "transport", "notjson" }, t \in DateNow :
         /\ log' = AddMessage(RemoveMessage(log, r.loadingId), ConnectText, "bot", FALSE, t)
         /\ clock' = t
         /\ last' = [op |-> "resolve", kind |-> kind, n |-> r.n]
    /\ reqs' = reqs \ {r}
    /\ UNCHANGED <<chatInput, nsent>>
    /\ UNCHANGED dashVars

\* the body of request r parses to null: data.response throws after the
\* placeholder was removed, and the catch block runs
chatNullPayload(r) ==
    /\ r \in reqs
    /\ \E t \in DateNow :
         /\ log' = AddMessage(RemoveMessage(RemoveMessage(log, r.loadingId), r.loadingId),
                              ConnectText, "bot", FALSE, t)
         /\ clock' = t
    /\ last' = [op |-> "resolve", kind |-> "null", n |-> r.n]
    /\ reqs' = reqs \ {r}
    /\ UNCHANGED <<chatInput, nsent>>
    /\ UNCHANGED dashVars

\* a mutant of BotReply: the two fixed failure texts are exchanged
BotReplySwapped(data) ==
    IF Truthy(data.response) THEN << data.response.v >>
    ELSE IF Truthy(data.error) THEN << ConnectText >>
    ELSE << >>

\* the texts that lines 31-35 add for a parsed body: one or none
BotReply(data) ==
    IF Truthy(data.response) THEN << data.response.v >>
    ELSE IF Truthy(data.error) THEN << ApologyText >>
    ELSE << >>

\* the body of request r parses to an object
chatResponse(r) ==
    /\ r \in reqs
    /\ \E data \in ChatPayloads :
         /\ IF BotReply(data) # << >>
            THEN \E t \in DateNow :
                    /\ log' = AddMessage(RemoveMessage(log, r.loadingId),
                                         BotReply(data)[1], "bot", FALSE, t)
                    /\ clock' = t
            ELSE /\ log' = RemoveMessage(log, r.loadingId)
                 /\ clock' = clock
         /\ last' = [op |-> "resolve", kind |-> PayloadKind(data), n |-> r.n]
    /\ reqs' = reqs \ {r}
    /\ UNCHANGED <<chatInput, nsent>>
    /\ UNCHANGED dashVars

----------------------------------------------------------------------------
(* Dashboard: values and pure functions.                                   *)
(* chat.js 71-317 is the dashboard in use; part_000 is its earlier variant *)

\* limit on the fetches of one endpoint that are outstanding at one time
MaxPending == 2

NaN == [t |-> "nan"]
Arr(a) == [t |-> "arr", v |-> a]
Iso(d) == [t |-> "iso", v |-> d]
\* the quotient n / d of a sum of readings by a count
Quot(n, d) == [t |-> "quot", n |-> n, d |-> d]

\* what an element shows
Markup == [t |-> "markup"]                  \* as the page was delivered
Text(s) == [t |-> "text", v |-> s]
Absent == [t |-> "absent"]

\* Number.prototype.toFixed(1): the nearest number of tenths, the larger one
\* of two equally near; "NaN" for NaN
ToFixed1(x) ==
    CASE x.t = "num" ->
           [t |-> "fixed1", neg |-> x.v < 0,
            tenths |-> ((IF x.v < 0 THEN -x.v ELSE x.v) + 5) \div 10]
      [] x.t = "quot" ->
           [t |-> "fixed1", neg |-> FALSE,
            tenths |-> (2 * x.n + 10 * x.d) \div (20 * x.d)]
      [] OTHER -> Text(<< "NaN" >>)

Abs(x) == Num(IF x.v < 0 THEN -x.v ELSE x.v)

\* thresholds of updateHealthStatus, in hundredths
GoodMax == 1540
ModerateMax == 3540
SensitiveMax == 5440

AdviceGood == << "Air quality is great! Perfect for outdoor activities and exercise." >>
AdviceModerate == << "Air quality is acceptable. Extremely sensitive individuals should consider limiting prolonged outdoor exertion." >>
AdviceSensitive == << "Members of sensitive groups (children, elderly, asthmatics) should limit outdoor activities." >>
AdviceUnhealthy == << "Everyone may begin to experience health effects. Please wear a mask and avoid outdoor activities." >>

\* a mutant of Classify: the upper bounds are exclusive
ClassifyExclusive(pm25) ==
    IF pm25 < GoodMax
    THEN [status |-> << "Good" >>, colorClass |-> "good", advice |-> AdviceGood]
    ELSE IF pm25 < ModerateMax
    THEN [status |-> << "Moderate" >>, colorClass |-> "moderate", advice |-> AdviceModerate]
    ELSE IF pm25 < SensitiveMax
    THEN [status |-> << "Unhealthy for Sensitive" >>, colorClass |-> "unhealthy-sensitive",
          advice |-> AdviceSensitive]
    ELSE [status |-> << "Unhealthy" >>, colorClass |-> "unhealthy", advice |-> AdviceUnhealthy]

\* the status, colour class and advice updateHealthStatus chooses
Classify(pm25) ==
    IF pm25 <= GoodMax
    THEN [status |-> << "Good" >>, colorClass |-> "good", advice |-> AdviceGood]
    ELSE IF pm25 <= ModerateMax
    THEN [status |-> << "Moderate" >>, colorClass |-> "moderate", advice |-> AdviceModerate]
    ELSE IF pm25 <= SensitiveMax
    THEN [status |-> << "Unhealthy for Sensitive" >>, colorClass |-> "unhealthy-sensitive",
          advice |-> AdviceSensitive]
    ELSE [status |-> << "Unhealthy" >>, colorClass |-> "unhealthy", advice |-> AdviceUnhealthy]

\* the elements after updateHealthStatus(pm25)
updateHealthStatus(d, pm25) ==
    [d EXCEPT !.currentStatus = Text(Classify(pm25).status),
              !.statusClass = Text(<< "status-pill", Classify(pm25).colorClass >>),
              !.healthAdvice = Text(Classify(pm25).advice)]

\* an instant the server stamps a value with
Dt(mo, d, h, mi) == [month |-> mo, day |-> d, hour |-> h, minute |-> mi]

\* toLocaleTimeString('zh-TW', {hour: '2-digit', minute: '2-digit'})
TimeOfDay(d) == [t |-> "time", hour |-> d.hour, minute |-> d.minute]
\* toLocaleString('zh-TW')
DateAndTime(d) ==
    [t |-> "datetime", month |-> d.month, day |-> d.day, hour |-> d.hour,
     minute |-> d.minute]
\* the decimal digits of an hour, and padStart(2, '0')
Digits(h) == IF h >= 10 THEN << h \div 10, h % 10 >> ELSE << h >>
PadStart2(ds) == IF Len(ds) < 2 THEN << 0 >> \o ds ELSE ds
\* the label of a value that is no date
InvalidDateLabel == [t |-> "invalid"]
\* `${d.getHours()}:00` of new Date(v)
HourLabel(v) ==
    IF v.t = "iso" THEN [t |-> "hour", hour |-> Digits(v.v.hour)] ELSE InvalidDateLabel
\* `${d.getMonth()+1}/${d.getDate()} ${d.getHours().toString().padStart(2, '0')}:00`
DayHourLabel(v) ==
    IF v.t = "iso"
    THEN [t |-> "dayhour", month |-> v.v.month, day |-> v.v.day,
          hour |-> PadStart2(Digits(v.v.hour))]
    ELSE InvalidDateLabel
\* `${date.getMonth()+1}/${date.getDate()} ${date.getHours()}:00`
DayHourLabel_p0(v) ==
    IF v.t = "iso"
    THEN [t |-> "dayhour", month |-> v.v.month, day |-> v.v.day,
          hour |-> Digits(v.v.hour)]
    ELSE InvalidDateLabel

\* labels of the forecast chart and of the two history charts
ForecastLabels(predictions) ==
    [i \in 1..Len(predictions) |-> HourLabel(predictions[i]["target_datetime"])]
HistoryLabels(sampled) ==
    [i \in 1..Len(sampled) |-> DayHourLabel(sampled[i]["datetime"])]
HistoryLabels_p0(sampled) ==
    [i \in 1..Len(sampled) |-> DayHourLabel_p0(sampled[i]["datetime"])]

\* values of a series: field f of each element
Values(series, f) == [i \in 1..Len(series) |-> series[i][f]]

\* a mutant of EveryNth: the positions kept are those after the ones the
\* filter keeps
RECURSIVE EveryNthShifted(_, _)
EveryNthShifted(series, stride) ==
    IF Len(series) < 2 THEN << >>
    ELSE << series[2] >> \o
         EveryNthShifted(SubSeq(series, stride + 1, Len(series)), stride)

\* Array.prototype.filter((_, i) => i % stride === 0): positions count from 0
RECURSIVE EveryNth(_, _)
EveryNth(series, stride) ==
    IF series = << >> THEN << >>
    ELSE << Head(series) >> \o
         EveryNth(SubSeq(series, stride + 1, Len(series)), stride)

\* strides of the two history charts
Stride == 2
Stride_p0 == 3

\* predictions.reduce((sum, p) => sum + p.predicted_pm25, 0): NaN as soon as
\* an element has no number
RECURSIVE SumPredicted(_)
SumPredicted(predictions) ==
    IF predictions = << >> THEN Num(0)
    ELSE LET rest == SumPredicted(SubSeq(predictions, 1, Len(predictions) - 1))
             p == predictions[Len(predictions)].predicted_pm25
         IN  IF rest.t = "num" /\ p.t = "num" THEN Num(rest.v + p.v) ELSE NaN

\* a mutant of Average: the sum is divided by one more than the length
AverageOverOneMore(predictions) ==
    IF SumPredicted(predictions).t = "num"
    THEN Quot(SumPredicted(predictions).v, Len(predictions) + 1)
    ELSE NaN

\* sum / predictions.length, for a non-empty array
Average(predictions) ==
    IF SumPredicted(predictions).t = "num"
    THEN Quot(SumPredicted(predictions).v, Len(predictions))
    ELSE NaN

\* a chart object; its identity is id
Chart(id, labels, data) == [t |-> "chart", id |-> id, labels |-> labels, data |-> data]

\* the identity of a newly constructed chart: one that no chart on the
\* canvas has, alive or referenced
NewChartId(handle, live) ==
    CHOOSE n \in 1..(Cardinality(live) + 2) :
        /\ n \notin live
        /\ handle.t = "chart" => n # handle.id
        /\ \A m \in 1..(n - 1) : m \in live \/ (handle.t = "chart" /\ m = handle.id)

\* a mutant of LiveAfterRender: the chart of the earlier render is not
\* destroyed
LiveAfterRenderLeaking(handle, live) ==
    live \cup { NewChartId(handle, live) }

\* the charts alive on a canvas after `if (handle) handle.destroy();
\* handle = new Chart(...)`
LiveAfterRender(handle, live) ==
    ((IF handle.t = "chart" THEN live \ {handle.id} ELSE live)
        \cup { NewChartId(handle, live) })

----------------------------------------------------------------------------
(* Dashboard: what the endpoints answer *)

Reject == [t |-> "reject"]                  \* fetch() is rejected: no response
NotJson == [t |-> "notjson"]                \* a body response.json() rejects
Response(ok, body) == [t |-> "response", ok |-> ok, body |-> body]

CurrentBody(err, pm25, dt, nxt, st) ==
    [t |-> "obj", error |-> err, current_pm25 |-> pm25, datetime |-> dt,
     next_hour_prediction |-> nxt, status |-> st]

\* the error payload of /api/current: an error and no reading
CurrentErrorBody ==
    CurrentBody(Str(<< "No data available" >>), Undefined, Undefined, Undefined, Undefined)

StatusGood == Str(<< "Good" >>)
StatusSensitive == Str(<< "Unhealthy", " ", "for", " ", "Sensitive", " ", "Groups" >>)

\* readings: a value, the instant of the reading, the next-hour prediction
\* (null when there is none) and the status text of the server
CurrentReadings ==
    { CurrentBody(Undefined, Num(1540), Iso(Dt(12, 7, 9, 5)), JNull, StatusGood),
      CurrentBody(Undefined, Num(1541), Iso(Dt(12, 8, 14, 30)), Num(1541), StatusGood),
      CurrentBody(Undefined, Num(1540), Iso(Dt(12, 8, 14, 30)), Num(1541), StatusSensitive),
      CurrentBody(Undefined, Num(4000), Iso(Dt(12, 7, 9, 5)), Num(0), StatusSensitive) }

\* bodies that are not of the shape of the interface: null, an empty
\* object, a null value, no next_hour_prediction
CurrentMalformed ==
    { JNull,
      CurrentBody(Undefined, Undefined, Undefined, Undefined, Undefined),
      CurrentBody(Undefined, JNull, Iso(Dt(12, 7, 9, 5)), JNull, StatusGood),
      CurrentBody(Undefined, Num(4000), Iso(Dt(12, 7, 9, 5)), Undefined, StatusGood) }

CurrentBodies == { CurrentErrorBody } \cup CurrentReadings \cup CurrentMalformed

Prediction(dt, v) == [target_datetime |-> dt, predicted_pm25 |-> v]

PredictionsBody(err, ps) == [t |-> "obj", error |-> err, predictions |-> ps]

PredictionArrays ==
    { << Prediction(Iso(Dt(12, 8, 15, 0)), Num(1000)),
         Prediction(Iso(Dt(12, 8, 16, 0)), Num(2000)) >>,
      << Prediction(Iso(Dt(12, 8, 15, 0)), Num(1234)),
         Prediction(Iso(Dt(12, 8, 16, 0)), Num(1235)),
         Prediction(Iso(Dt(12, 8, 17, 0)), Num(1238)) >> }

\* an array whose element lacks predicted_pm25
MalformedPredictions == << Prediction(Iso(Dt(12, 8, 15, 0)), Undefined) >>

PredictionsErrorBody == PredictionsBody(Str(<< "Database error" >>), Undefined)

PredictionsBodies ==
    { JNull, PredictionsErrorBody,
      PredictionsBody(Undefined, Undefined),
      PredictionsBody(Undefined, Num(5)),
      PredictionsBody(Undefined, Arr(<< >>)),
      PredictionsBody(Undefined, Arr(MalformedPredictions)) }
    \cup { PredictionsBody(Undefined, Arr(a)) : a \in PredictionArrays }

HistoryPoint(dt, v) == [datetime |-> dt, pm25 |-> v]

HistoryBody(err, h) == [t |-> "obj", error |-> err, history |-> h]

HistoryArrays ==
    { [i \in 1..5 |-> HistoryPoint(Iso(Dt(12, 7, i, 0)), Num(1000 + 100 * i))],
      [i \in 1..7 |-> HistoryPoint(Iso(Dt(12, 6, 9 + i, 0)), Num(3000 + 100 * i))] }

\* an array whose element has neither datetime nor pm25
MalformedHistory == << HistoryPoint(Undefined, Undefined) >>

HistoryErrorBody == HistoryBody(Str(<< "Database error" >>), Undefined)

HistoryBodies ==
    { JNull, HistoryErrorBody,
      HistoryBody(Undefined, Undefined),
      HistoryBody(Undefined, Num(5)),
      HistoryBody(Undefined, Arr(<< >>)),
      HistoryBody(Undefined, Arr(MalformedHistory)) }
    \cup { HistoryBody(Undefined, Arr(a)) : a \in HistoryArrays }

StatusBodies ==
    { JNull, [t |-> "obj", status |-> Undefined],
      [t |-> "obj", status |-> Str(<< "Air quality is moderate." >>)] }

\* the answers of an endpoint: no response at all; a non-success response,
\* which carries the endpoint's error payload or no JSON; a success response
\* with one of the bodies, or with a body that is not JSON
Responses(errorBody, bodies) ==
    { Reject }
    \cup { Response(FALSE, b) : b \in { NotJson, errorBody } }
    \cup { Response(TRUE, b) : b \in bodies \cup { NotJson } }

CurrentResponses == Responses(CurrentErrorBody, CurrentBodies)
PredictionsResponses == Responses(PredictionsErrorBody, PredictionsBodies)
HistoryResponses == Responses(HistoryErrorBody, HistoryBodies)
StatusResponses == Responses([t |-> "obj", status |-> Undefined], StatusBodies)

----------------------------------------------------------------------------
(* Dashboard of chat.js 71-317 *)

Sources == { "current", "predictions", "history" }
Sources_p0 == { "current", "predictions", "history", "status" }

\* the startup presentation of lines 100-105
Initializing(d) ==
    [d EXCEPT !.currentPM25 = Text(<< "--" >>),
              !.currentStatus = Text(<< "System Starting..." >>),
              !.statusClass = Text(<< "status-pill", "loading" >>),
              !.healthAdvice = Text(<< "The system is gathering initial data. Please wait..." >>),
              !.lastUpdate = Text(<< "Initializing..." >>),
              !.dot = "#fbbf24"]

\* a mutant of NextHourAndTrend: a trend of zero counts as rising
NextHourAndTrendZeroUp(d, nextVal, pm25) ==
    LET trend == nextVal - pm25
    IN  [d EXCEPT !.nextHourPM25 = ToFixed1(Num(nextVal)),
                  !.trendIndicator =
                      [t |-> "trend",
                       icon |-> IF trend >= 0 THEN "up" ELSE "down",
                       color |-> IF trend >= 0 THEN "#ef4444" ELSE "#10b981",
                       amount |-> ToFixed1(Abs(Num(trend)))]]

\* lines 121-132: the next-hour value and the trend against pm25
NextHourAndTrend(d, nextVal, pm25) ==
    LET trend == nextVal - pm25
    IN  [d EXCEPT !.nextHourPM25 = ToFixed1(Num(nextVal)),
                  !.trendIndicator =
                      [t |-> "trend",
                       icon |-> IF trend > 0 THEN "up" ELSE "down",
                       color |-> IF trend > 0 THEN "#ef4444" ELSE "#10b981",
                       amount |-> ToFixed1(Abs(Num(trend)))]]

\* lines 110-118: the value, the time of the update and the health status
ShowReading(d, data) ==
    updateHealthStatus(
        [d EXCEPT !.currentPM25 = ToFixed1(data.current_pm25),
                  !.lastUpdate = IF data.datetime.t = "iso"
                                 THEN [t |-> "updated", at |-> TimeOfDay(data.datetime.v)]
                                 ELSE Text(<< "Updated ", "Invalid Date" >>),
                  !.dot = "#10b981"],
        data.current_pm25.v)

\* whether loadCurrentAndStatus reaches line 113 without throwing
ReadingShown(resp) ==
    /\ resp.t = "response"
    /\ resp.ok
    /\ resp.body.t = "obj"
    /\ ~Truthy(resp.body.error)
    /\ resp.body.current_pm25.t = "num"

\* whether loadCurrentAndStatus reaches lines 100-106
StartupShown(resp) ==
    /\ resp.t = "response"
    /\ resp.ok
    /\ resp.body.t = "obj"
    /\ (Truthy(resp.body.error) \/ resp.body.current_pm25.t = "undefined")

\* a mutant of AfterCurrent: the reading is also written to the element of
\* the average, a field of the predictions
AfterCurrentSharing(d, resp) ==
    IF StartupShown(resp) THEN Initializing(d)
    ELSE IF ReadingShown(resp)
    THEN [ShowReading(d, resp.body) EXCEPT !.avgPM25 = ToFixed1(resp.body.current_pm25)]
    ELSE d

\* the elements after loadCurrentAndStatus has processed resp: a rejected
\* fetch, a body that is not JSON, a null body, a current_pm25 without
\* toFixed and a next_hour_prediction without toFixed end in the catch block,
\* with what was written before
AfterCurrent(d, resp) ==
    IF StartupShown(resp) THEN Initializing(d)
    ELSE IF ReadingShown(resp)
    THEN (IF resp.body.next_hour_prediction.t = "num"
          THEN NextHourAndTrend(ShowReading(d, resp.body),
                                resp.body.next_hour_prediction.v,
                                resp.body.current_pm25.v)
          ELSE ShowReading(d, resp.body))
    ELSE d

\* the reading on display after resp
CurrentAfter(c, resp) ==
    IF StartupShown(resp) THEN Absent
    ELSE IF ReadingShown(resp) THEN resp.body.current_pm25
    ELSE c

\* loadDashboardData: a cycle starts, at page load and at each timer tick
loadDashboardData ==
    /\ \A s \in Sources : pending[s] < MaxPending
    /\ pending' = [s \in DOMAIN pending |->
                      IF s \in Sources THEN pending[s] + 1 ELSE pending[s]]
    /\ UNCHANGED <<dom, forecastChart, historyChart, liveCharts, current, everSucceeded>>
    /\ UNCHANGED <<chatVars, last>>

\* loadCurrentAndStatus, from the answer of /api/current to its end
loadCurrentAndStatus(resp) ==
    /\ pending["current"] > 0
    /\ dom' = AfterCurrent(dom, resp)
    /\ current' = CurrentAfter(current, resp)
    /\ everSucceeded' = (everSucceeded \/ ReadingShown(resp))
    /\ pending' = [pending EXCEPT !["current"] = @ - 1]
    /\ UNCHANGED <<forecastChart, historyChart, liveCharts>>
    /\ UNCHANGED <<chatVars, last>>

\* whether loadPredictions reaches line 180: the body has a non-empty array
\* under predictions
PredictionsShown(resp) ==
    /\ resp.t = "response"
    /\ resp.body.t = "obj"
    /\ resp.body.predictions.t = "arr"
    /\ resp.body.predictions.v # << >>

\* a mutant of ForecastChartOf: the new chart keeps the data of the chart
\* it replaces
ForecastChartOfKeepingData(predictions, handle, live) ==
    Chart(NewChartId(handle, live),
          ForecastLabels(predictions),
          IF handle.t = "chart" THEN handle.data
          ELSE Values(predictions, "predicted_pm25"))

\* renderForecastChart(predictions): the new chart
ForecastChartOf(predictions, handle, live) ==
    Chart(NewChartId(handle, live),
          ForecastLabels(predictions),
          Values(predictions, "predicted_pm25"))

\* a mutant of loadPredictions: an answer with nothing to show ends the
\* cycle, and the history fetch of the cycle is dropped
loadPredictionsAborting(resp) ==
    /\ pending["predictions"] > 0
    /\ IF PredictionsShown(resp)
       THEN /\ dom' = [dom EXCEPT !.avgPM25 =
                           ToFixed1(Average(resp.body.predictions.v))]
            /\ forecastChart' = ForecastChartOf(resp.body.predictions.v,
                                   forecastChart, liveCharts["forecastChart"])
            /\ liveCharts' = [liveCharts EXCEPT !["forecastChart"] =
                                 LiveAfterRender(forecastChart, @)]
            /\ pending' = [pending EXCEPT !["predictions"] = @ - 1]
       ELSE /\ UNCHANGED <<dom, forecastChart, liveCharts>>
            /\ pending' = [pending EXCEPT !["predictions"] = @ - 1,
                                          !["history"] = 0]
    /\ UNCHANGED <<historyChart, current, everSucceeded>>
    /\ UNCHANGED <<chatVars, last>>

\* loadPredictions, from the answer of /api/predictions to its end
loadPredictions(resp) ==
    /\ pending["predictions"] > 0
    /\ IF PredictionsShown(resp)
       THEN /\ dom' = [dom EXCEPT !.avgPM25 =
                           ToFixed1(Average(resp.body.predictions.v))]
            /\ forecastChart' = ForecastChartOf(resp.body.predictions.v,
                                   forecastChart, liveCharts["forecastChart"])
            /\ liveCharts' = [liveCharts EXCEPT !["forecastChart"] =
                                 LiveAfterRender(forecastChart, @)]
       ELSE UNCHANGED <<dom, forecastChart, liveCharts>>
    /\ pending' = [pending EXCEPT !["predictions"] = @ - 1]
    /\ UNCHANGED <<historyChart, current, everSucceeded>>
    /\ UNCHANGED <<chatVars, last>>

\* whether loadHistory reaches the construction of the chart: the body has
\* an array under history
HistoryShown(resp) ==
    /\ resp.t = "response"
    /\ resp.body.t = "obj"
    /\ resp.body.history.t = "arr"

\* renderHistoryChart(history): the new chart
HistoryChartOf(history, handle, live) ==
    Chart(NewChartId(handle, live),
          HistoryLabels(EveryNth(history, Stride)),
          Values(EveryNth(history, Stride), "pm25"))

\* loadHistory, from the answer of /api/history to its end
loadHistory(resp) ==
    /\ pending["history"] > 0
    /\ IF HistoryShown(resp)
       THEN /\ historyChart' = HistoryChartOf(resp.body.history.v,
                                   historyChart, liveCharts["historyChart"])
            /\ liveCharts' = [liveCharts EXCEPT !["historyChart"] =
                                 LiveAfterRender(historyChart, @)]
       ELSE UNCHANGED <<historyChart, liveCharts>>
    /\ pending' = [pending EXCEPT !["history"] = @ - 1]
    /\ UNCHANGED <<dom, forecastChart, current, everSucceeded>>
    /\ UNCHANGED <<chatVars, last>>

----------------------------------------------------------------------------
(* Dashboard of part_000, the earlier variant *)

\* toLowerCase of the words of the status texts
LowerCase(w) ==
    CASE w = "Good" -> "good"
      [] w = "Unhealthy" -> "unhealthy"
      [] w = "Sensitive" -> "sensitive"
      [] w = "Groups" -> "groups"
      [] OTHER -> w

\* status.toLowerCase().replace(/ /g, '-')
Slug(s) == [i \in 1..Len(s) |-> IF s[i] = " " THEN "-" ELSE LowerCase(s[i])]

\* lines 45-58: the next-hour value and the trend against the reading
NextHourAndTrend_p0(d, nextVal, pm25) ==
    LET trend == nextVal - pm25
    IN  [d EXCEPT !.nextHourPM25 = ToFixed1(Num(nextVal)),
                  !.trendIndicator =
                      [t |-> "trend",
                       icon |-> IF trend > 0 THEN "up" ELSE "down",
                       color |-> IF trend > 0 THEN "#ef4444" ELSE "#10b981",
                       plus |-> trend > 0,
                       amount |-> ToFixed1(Num(trend))]]

\* whether loadCurrentData reaches line 37 without throwing
ReadingShown_p0(resp) ==
    /\ resp.t = "response"
    /\ resp.body.t = "obj"
    /\ ~Truthy(resp.body.error)
    /\ resp.body.current_pm25.t = "num"

\* the elements after loadCurrentData has processed resp: a status that is
\* no string throws at line 42, after lines 37 and 41 have written
AfterCurrent_p0(d, resp) ==
    IF ~ReadingShown_p0(resp) THEN d
    ELSE LET data == resp.body
             d1 == [d EXCEPT !.currentPM25 = ToFixed1(data.current_pm25)]
         IN  IF data.status.t # "str"
             THEN [d1 EXCEPT !.currentStatus = Text(<< >>)]
             ELSE LET d2 == [d1 EXCEPT
                               !.currentStatus = Text(data.status.v),
                               !.statusClass =
                                   Text(<< "status-badge" >> \o Slug(data.status.v))]
                      d3 == IF Truthy(data.next_hour_prediction)
                            THEN NextHourAndTrend_p0(d2, data.next_hour_prediction.v,
                                                     data.current_pm25.v)
                            ELSE d2
                  IN  [d3 EXCEPT !.lastUpdate =
                          IF data.datetime.t = "iso"
                          THEN DateAndTime(data.datetime.v)
                          ELSE Text(<< "Invalid Date" >>)]

\* loadDashboardData of part_000: a cycle of four fetches starts
loadDashboardData_p0 ==
    /\ \A s \in Sources_p0 : pending[s] < MaxPending
    /\ pending' = [s \in DOMAIN pending |->
                      IF s \in Sources_p0 THEN pending[s] + 1 ELSE pending[s]]
    /\ UNCHANGED <<dom, forecastChart, historyChart, liveCharts, current, everSucceeded>>
    /\ UNCHANGED <<chatVars, last>>

\* loadCurrentData, from the answer of /api/current to its end
loadCurrentData_p0(resp) ==
    /\ pending["current"] > 0
    /\ dom' = AfterCurrent_p0(dom, resp)
    /\ current' = IF ReadingShown_p0(resp) THEN resp.body.current_pm25 ELSE current
    /\ everSucceeded' = (everSucceeded \/ ReadingShown_p0(resp))
    /\ pending' = [pending EXCEPT !["current"] = @ - 1]
    /\ UNCHANGED <<forecastChart, historyChart, liveCharts>>
    /\ UNCHANGED <<chatVars, last>>

\* whether loadPredictions of part_000 reaches line 79
PredictionsShown_p0(resp) ==
    /\ resp.t = "response"
    /\ resp.body.t = "obj"
    /\ ~Truthy(resp.body.error)
    /\ resp.body.predictions.t = "arr"
    /\ resp.body.predictions.v # << >>

\* loadPredictions of part_000, from the answer to its end
loadPredictions_p0(resp) ==
    /\ pending["predictions"] > 0
    /\ IF PredictionsShown_p0(resp)
       THEN /\ dom' = [dom EXCEPT !.avgPM25 =
                           ToFixed1(Average(resp.body.predictions.v))]
            /\ forecastChart' = ForecastChartOf(resp.body.predictions.v,
                                   forecastChart, liveCharts["forecastChart"])
            /\ liveCharts' = [liveCharts EXCEPT !["forecastChart"] =
                                 LiveAfterRender(forecastChart, @)]
       ELSE UNCHANGED <<dom, forecastChart, liveCharts>>
    /\ pending' = [pending EXCEPT !["predictions"] = @ - 1]
    /\ UNCHANGED <<historyChart, current, everSucceeded>>
    /\ UNCHANGED <<chatVars, last>>

\* whether loadHistory of part_000 reaches line 98
HistoryShown_p0(resp) ==
    /\ resp.t = "response"
    /\ resp.body.t = "obj"
    /\ ~Truthy(resp.body.error)
    /\ resp.body.history.t = "arr"

\* updateHistoryChart(history): the new chart
HistoryChartOf_p0(history, handle, live) ==
    Chart(NewChartId(handle, live),
          HistoryLabels_p0(EveryNth(history, Stride_p0)),
          Values(EveryNth(history, Stride_p0), "pm25"))

\* loadHistory of part_000, from the answer to its end
loadHistory_p0(resp) ==
    /\ pending["history"] > 0
    /\ IF HistoryShown_p0(resp)
       THEN /\ historyChart' = HistoryChartOf_p0(resp.body.history.v,
                                   historyChart, liveCharts["historyChart"])
            /\ liveCharts' = [liveCharts EXCEPT !["historyChart"] =
                                 LiveAfterRender(historyChart, @)]
       ELSE UNCHANGED <<historyChart, liveCharts>>
    /\ pending' = [pending EXCEPT !["history"] = @ - 1]
    /\ UNCHANGED <<dom, forecastChart, current, everSucceeded>>
    /\ UNCHANGED <<chatVars, last>>

\* loadHealthAdvice, from the answer of /api/status to its end
loadHealthAdvice_p0(resp) ==
    /\ pending["status"] > 0
    /\ IF resp.t = "response" /\ resp.body.t = "obj" /\ Truthy(resp.body.status)
       THEN dom' = [dom EXCEPT !.healthAdvice = [t |-> "html", p |-> resp.body.status.v]]
       ELSE UNCHANGED dom
    /\ pending' = [pending EXCEPT !["status"] = @ - 1]
    /\ UNCHANGED <<forecastChart, historyChart, liveCharts, current, everSucceeded>>
    /\ UNCHANGED <<chatVars, last>>

----------------------------------------------------------------------------
(* Specifications *)

Elements == { "currentPM25", "currentStatus", "statusClass", "healthAdvice",
              "lastUpdate", "dot", "nextHourPM25", "trendIndicator", "avgPM25" }

\* the chat session at page load
InitChat ==
    /\ chatInput = << >>
    /\ log = << >>
    /\ clock = 0
    /\ reqs = {}
    /\ nsent = 0

\* the dashboard at page load: the elements as delivered, no chart
InitPage ==
    /\ dom = [e \in Elements |-> Markup]
    /\ forecastChart = JNull
    /\ historyChart = JNull
    /\ liveCharts = [c \in { "forecastChart", "historyChart" } |-> {}]
    /\ current = Absent
    /\ everSucceeded = FALSE

\* the chat session, the dashboard at rest
Init ==
    /\ InitChat
    /\ InitPage
    /\ pending = [s \in Sources_p0 |-> 0]
    /\ last = [op |-> "init", kind |-> "init"]

Next ==
    \/ TypeInput
    \/ sendMessage
    \/ \E r \in reqs : chatTransportFailure(r)
    \/ \E r \in reqs : chatNullPayload(r)
    \/ \E r \in reqs : chatResponse(r)

Spec == Init /\ [][Next]_vars

\* the dashboard of chat.js after the DOMContentLoaded handler has started
\* the first cycle
InitDash ==
    /\ InitChat
    /\ InitPage
    /\ pending = [s \in Sources_p0 |-> IF s \in Sources THEN 1 ELSE 0]
    /\ last = [op |-> "init", kind |-> "init"]

NextDash ==
    \/ loadDashboardData
    \/ \E resp \in CurrentResponses : loadCurrentAndStatus(resp)
    \/ \E resp \in PredictionsResponses : loadPredictions(resp)
    \/ \E resp \in HistoryResponses : loadHistory(resp)

SpecDash == InitDash /\ [][NextDash]_vars

\* the dashboard of part_000 after the DOMContentLoaded handler has started
\* the first cycle
InitDash_p0 ==
    /\ InitChat
    /\ InitPage
    /\ pending = [s \in Sources_p0 |-> 1]
    /\ last = [op |-> "init", kind |-> "init"]

NextDash_p0 ==
    \/ loadDashboardData_p0
    \/ \E resp \in CurrentResponses : loadCurrentData_p0(resp)
    \/ \E resp \in PredictionsResponses : loadPredictions_p0(resp)
    \/ \E resp \in HistoryResponses : loadHistory_p0(resp)
    \/ \E resp \in StatusResponses : loadHealthAdvice_p0(resp)

SpecDash_p0 == InitDash_p0 /\ [][NextDash_p0]_vars

----------------------------------------------------------------------------
(* Claims about the chat session *)

Pending(l) == { i \in 1..Len(l) : l[i].isLoading }

Count(l, text) == Cardinality({ i \in 1..Len(l) : l[i].text = text })

OnlyWhiteSpace(s) == \A i \in 1..Len(s) : s[i] = " "

\* C1: at most one exchange is in flight: in every reachable state at most
\* one request is outstanding and at most one pending message is in the log
\* (a send while a request is outstanding is ignored).
C1_AtMostOneInFlight ==
    /\ Cardinality(reqs) <= 1
    /\ Cardinality(Pending(log)) <= 1

\* C2: in every reachable state with no request outstanding the log holds
\* no pending message.
C2_NoDanglingPending ==
    reqs = {} => Pending(log) = {}

\* C3: every final bot message directly follows a user message: the reply
\* takes the position of the placeholder it resolves.
C3_ReplyFollowsUserMessage ==
    \A i \in 1..Len(log) :
        (log[i].sender = "bot" /\ ~log[i].isLoading) =>
            (i > 1 /\ log[i - 1].sender = "user")

\* C4: a send whose input is empty or white space only changes nothing: the
\* log, the outstanding requests, the number of requests issued and the
\* input are what they were.
C4_EmptySendIsNoOp ==
    [][(last'.op = "sendMessage" /\ OnlyWhiteSpace(chatInput))
          => UNCHANGED chatVars]_vars

C4_Witness ==
    /\ last.op = "sendMessage"
    /\ last.kind = "ignored"
    /\ chatInput # << >>
    /\ OnlyWhiteSpace(chatInput)
    /\ log # << >>

\* C5: a resolution by an application-level error payload appends the
\* apology text and adds no could-not-connect text, a resolution by a
\* transport failure appends the could-not-connect text and adds no apology
\* text; the two texts differ and in both cases the exchange is no longer
\* outstanding.
C5_DistinctFailureTexts ==
    [][/\ ApologyText # ConnectText
       /\ (last'.op = "resolve" /\ last'.kind = "apperror") =>
             /\ log' # << >>
             /\ log'[Len(log')].text = ApologyText
             /\ log'[Len(log')].sender = "bot"
             /\ ~log'[Len(log')].isLoading
             /\ Count(log', ConnectText) <= Count(log, ConnectText)
             /\ \A r \in reqs' : r.n # last'.n
             /\ Cardinality(reqs') = Cardinality(reqs) - 1
       /\ (last'.op = "resolve" /\ last'.kind = "transport") =>
             /\ log' # << >>
             /\ log'[Len(log')].text = ConnectText
             /\ log'[Len(log')].sender = "bot"
             /\ ~log'[Len(log')].isLoading
             /\ Count(log', ApologyText) <= Count(log, ApologyText)
             /\ \A r \in reqs' : r.n # last'.n
             /\ Cardinality(reqs') = Cardinality(reqs) - 1
      ]_vars

C5_Witness ==
    /\ last.op = "resolve"
    /\ last.kind = "apperror"
    /\ Count(log, ApologyText) = 1
    /\ Count(log, ConnectText) = 1
    /\ reqs = {}

----------------------------------------------------------------------------
(* Claims about the dashboard *)

\* bodies of the shape of the interface
WellFormedCurrent(body) ==
    /\ body.t = "obj"
    /\ ~Truthy(body.error)
    /\ body.current_pm25.t = "num"
    /\ body.datetime.t = "iso"
    /\ body.next_hour_prediction.t \in { "num", "null" }

WellFormedPredictions(body) ==
    /\ body.t = "obj"
    /\ ~Truthy(body.error)
    /\ body.predictions.t = "arr"
    /\ \A i \in 1..Len(body.predictions.v) :
          /\ body.predictions.v[i].target_datetime.t = "iso"
          /\ body.predictions.v[i].predicted_pm25.t = "num"

WellFormedHistory(body) ==
    /\ body.t = "obj"
    /\ ~Truthy(body.error)
    /\ body.history.t = "arr"
    /\ \A i \in 1..Len(body.history.v) :
          /\ body.history.v[i].datetime.t = "iso"
          /\ body.history.v[i].pm25.t = "num"

\* the three ways a sub-fetch fails
TransportFailure(resp) == resp.t = "reject"
NonSuccess(resp) == resp.t = "response" /\ ~resp.ok
ErrorPayload(resp) ==
    /\ resp.t = "response"
    /\ resp.ok
    /\ resp.body.t = "obj"
    /\ Truthy(resp.body.error)

FailedCurrent(resp) ==
    TransportFailure(resp) \/ NonSuccess(resp) \/ ~WellFormedCurrent(resp.body)
FailedPredictions(resp) ==
    TransportFailure(resp) \/ NonSuccess(resp) \/ ~WellFormedPredictions(resp.body)
FailedHistory(resp) ==
    TransportFailure(resp) \/ NonSuccess(resp) \/ ~WellFormedHistory(resp.body)

\* the answers that carry a reading, a non-empty series of predictions, a
\* non-empty history
GoodCurrentResponses == { resp \in CurrentResponses : ~FailedCurrent(resp) }
GoodPredictionsResponses ==
    { resp \in PredictionsResponses :
        ~FailedPredictions(resp) /\ resp.body.predictions.v # << >> }
GoodHistoryResponses ==
    { resp \in HistoryResponses :
        ~FailedHistory(resp) /\ resp.body.history.v # << >> }

\* the fields and the chart slot of each source
CurrentFields ==
    << dom.currentPM25, dom.currentStatus, dom.statusClass, dom.healthAdvice,
       dom.lastUpdate, dom.dot, dom.nextHourPM25, dom.trendIndicator, current,
       everSucceeded, pending["current"] >>
PredictionsFields ==
    << dom.avgPM25, forecastChart, liveCharts["forecastChart"], pending["predictions"] >>
HistoryFields ==
    << historyChart, liveCharts["historyChart"], pending["history"] >>

\* the step is the end of a fetch of source s
AnswerOf(s) == pending'[s] = pending[s] - 1

\* the startup presentation is on display
IsInitializing ==
    /\ dom.currentPM25 = Text(<< "--" >>)
    /\ dom.currentStatus = Text(<< "System Starting..." >>)
    /\ dom.lastUpdate = Text(<< "Initializing..." >>)
    /\ dom.dot = "#fbbf24"

\* C6: the answer of one source, a failing one included, leaves the
\* outstanding fetches, the fields and the chart slot of the other sources as
\* they are, and a well-formed answer of a source is shown in whatever state
\* the failures of the others have left: the value of the reading, the
\* average and the forecast series, the sampled history series.
C6_FailureIsIsolated ==
    [][/\ AnswerOf("current") =>
            /\ UNCHANGED << PredictionsFields, HistoryFields >>
            /\ \A resp \in GoodCurrentResponses :
                  loadCurrentAndStatus(resp) =>
                     /\ dom'.currentPM25 = ToFixed1(resp.body.current_pm25)
                     /\ current' = resp.body.current_pm25
       /\ AnswerOf("predictions") =>
            /\ UNCHANGED << CurrentFields, HistoryFields >>
            /\ \A resp \in GoodPredictionsResponses :
                  loadPredictions(resp) =>
                     /\ dom'.avgPM25 = ToFixed1(Average(resp.body.predictions.v))
                     /\ forecastChart'.data =
                           Values(resp.body.predictions.v, "predicted_pm25")
       /\ AnswerOf("history") =>
            /\ UNCHANGED << CurrentFields, PredictionsFields >>
            /\ \A resp \in GoodHistoryResponses :
                  loadHistory(resp) =>
                     historyChart'.data =
                        Values(EveryNth(resp.body.history.v, Stride), "pm25")
      ]_vars

\* the same for the four sources of part_000; the status and the advice are
\* fields of two sources there
CurrentFields_p0 ==
    << dom.currentPM25, dom.currentStatus, dom.statusClass, dom.lastUpdate,
       dom.nextHourPM25, dom.trendIndicator, current, everSucceeded,
       pending["current"] >>
StatusFields_p0 == << dom.healthAdvice, pending["status"] >>

IsolationIn_p0 ==
    [][/\ AnswerOf("current") =>
            /\ UNCHANGED << PredictionsFields, HistoryFields, StatusFields_p0 >>
            /\ \A resp \in GoodCurrentResponses :
                  loadCurrentData_p0(resp) =>
                     /\ dom'.currentPM25 = ToFixed1(resp.body.current_pm25)
                     /\ current' = resp.body.current_pm25
       /\ AnswerOf("predictions") =>
            /\ UNCHANGED << CurrentFields_p0, HistoryFields, StatusFields_p0 >>
            /\ \A resp \in GoodPredictionsResponses :
                  loadPredictions_p0(resp) =>
                     /\ dom'.avgPM25 = ToFixed1(Average(resp.body.predictions.v))
                     /\ forecastChart'.data =
                           Values(resp.body.predictions.v, "predicted_pm25")
       /\ AnswerOf("history") =>
            /\ UNCHANGED << CurrentFields_p0, PredictionsFields, StatusFields_p0 >>
            /\ \A resp \in GoodHistoryResponses :
                  loadHistory_p0(resp) =>
                     historyChart'.data =
                        Values(EveryNth(resp.body.history.v, Stride_p0), "pm25")
       /\ AnswerOf("status") =>
            UNCHANGED << CurrentFields_p0, PredictionsFields, HistoryFields >>
      ]_vars

\* the first cycle is over: the predictions fetch has ended with nothing to
\* show, a failure among the ways, and the reading and the history of the
\* same cycle are on display
C6_Witness ==
    /\ \A s \in Sources : pending[s] = 0
    /\ dom.avgPM25 = Markup
    /\ forecastChart = JNull
    /\ historyChart.t = "chart"
    /\ historyChart.data # << >>
    /\ current # Absent

\* C7: a failing answer of the predictions fetch leaves the average and the
\* forecast chart as they are, a failing answer of the history fetch leaves
\* the history chart as it is, and neither writes any element.
C7_FailureKeepsPreviousValues ==
    [][/\ \A resp \in PredictionsResponses :
            (FailedPredictions(resp) /\ loadPredictions(resp)) =>
                UNCHANGED << dom, forecastChart, liveCharts >>
       /\ \A resp \in HistoryResponses :
            (FailedHistory(resp) /\ loadHistory(resp)) =>
                UNCHANGED << dom, historyChart, liveCharts >>
      ]_vars

\* C8: while no reading has ever been displayed, a current fetch that fails
\* by a transport failure, a non-success response or an error payload puts
\* the startup presentation on display.
C8_FirstFailureShowsInitializing ==
    [][\A resp \in CurrentResponses :
          (/\ ~everSucceeded
           /\ TransportFailure(resp) \/ NonSuccess(resp) \/ ErrorPayload(resp)
           /\ loadCurrentAndStatus(resp)) => IsInitializing'
      ]_vars

\* C9: once a reading has been displayed, a current fetch that fails by a
\* transport failure, a non-success response or an error payload leaves the
\* value, the status, the advice and the time of the update as they are, and
\* the startup presentation is never on display again.
C9_SilentDegradeAfterSuccess ==
    [][/\ \A resp \in CurrentResponses :
            (/\ everSucceeded
             /\ TransportFailure(resp) \/ NonSuccess(resp) \/ ErrorPayload(resp)
             /\ loadCurrentAndStatus(resp)) =>
                UNCHANGED << dom.currentPM25, dom.currentStatus, dom.healthAdvice,
                             dom.lastUpdate >>
       /\ everSucceeded => ~IsInitializing'
      ]_vars

\* C10: while a reading is on display, the status and the advice are those
\* of the classifier for the value of that reading; while none is, the
\* status is a placeholder.
C10_StatusFromDisplayedValue ==
    IF current # Absent
    THEN /\ dom.currentPM25 = ToFixed1(current)
         /\ dom.currentStatus = Text(Classify(current.v).status)
         /\ dom.healthAdvice = Text(Classify(current.v).advice)
    ELSE dom.currentStatus \in { Markup, Text(<< "System Starting..." >>) }

----------------------------------------------------------------------------
(* Claims about the trend, the charts and the cycles of the dashboard *)

\* a displayed number of tenths, with its sign
Tenths(x) == IF x.neg THEN -x.tenths ELSE x.tenths

\* the delta the trend indicator of chat.js shows: the amount, counted
\* upwards under the rising icon and downwards under the falling one
TrendDelta(tr) ==
    IF tr.icon = "up" THEN Tenths(tr.amount) ELSE -Tenths(tr.amount)

\* whether a value, a next-hour prediction and a trend are on display
TrendOnDisplay ==
    /\ dom.currentPM25.t = "fixed1"
    /\ dom.nextHourPM25.t = "fixed1"
    /\ dom.trendIndicator.t = "trend"

\* C11: in every state where a current value, a next-hour prediction and a
\* trend are displayed, the displayed trend is the displayed next-hour value
\* minus the displayed current value. The three numbers are shown rounded to
\* tenths, so the difference of the displayed numbers and the displayed delta
\* may differ by the one tenth that rounding accounts for, and no more.
C11_TrendIsNextMinusCurrent ==
    TrendOnDisplay =>
        LET shown == TrendDelta(dom.trendIndicator)
            diff == Tenths(dom.nextHourPM25) - Tenths(dom.currentPM25)
        IN  /\ shown - diff \in -1..1
            /\ (dom.trendIndicator.icon = "up") => diff >= 0
            /\ (dom.trendIndicator.icon = "down") => diff <= 0

\* the chart slots and the handle each one keeps
Slots == { "forecastChart", "historyChart" }
HandleOf(slot) == IF slot = "forecastChart" THEN forecastChart ELSE historyChart

\* C12: for each chart slot, at most one chart that was created and not
\* destroyed exists; once the slot has been rendered there is exactly one,
\* the chart the handle of the slot refers to, however many renders and
\* cycles came before.
C12_OneLiveChartPerSlot ==
    \A slot \in Slots :
        /\ Cardinality(liveCharts[slot]) <= 1
        /\ HandleOf(slot).t = "chart" => liveCharts[slot] = { HandleOf(slot).id }
        /\ HandleOf(slot) = JNull => liveCharts[slot] = {}

\* both slots have been rendered twice in succession: the second chart of
\* each is the one alive
C12_Witness ==
    /\ forecastChart.t = "chart" /\ forecastChart.id = 2
    /\ historyChart.t = "chart" /\ historyChart.id = 2
    /\ liveCharts = [forecastChart |-> {2}, historyChart |-> {2}]

\* an answer whose series is empty or malformed: a body in which the value
\* under the name of the series is no array, an empty array, or an array
\* with an element that lacks its instant or its number
EmptyOrMalformedPredictions(resp) ==
    /\ resp.t = "response"
    /\ resp.body.t = "obj"
    /\ \/ resp.body.predictions.t # "arr"
       \/ resp.body.predictions.v = << >>
       \/ ~WellFormedPredictions([resp.body EXCEPT !.error = Undefined])
EmptyOrMalformedHistory(resp) ==
    /\ resp.t = "response"
    /\ resp.body.t = "obj"
    /\ \/ resp.body.history.t # "arr"
       \/ resp.body.history.v = << >>
       \/ ~WellFormedHistory([resp.body EXCEPT !.error = Undefined])

\* C13: an answer of the predictions or of the history fetch whose series is
\* empty or malformed makes no chart transition: the handle of the slot and
\* the charts alive on it stay as they are.
C13_EmptySeriesKeepsChart ==
    [][/\ \A resp \in PredictionsResponses :
            (EmptyOrMalformedPredictions(resp) /\ loadPredictions(resp)) =>
                UNCHANGED << forecastChart, liveCharts >>
       /\ \A resp \in HistoryResponses :
            (EmptyOrMalformedHistory(resp) /\ loadHistory(resp)) =>
                UNCHANGED << historyChart, liveCharts >>
      ]_vars

\* C13, for the part of the claim the code keeps: an empty array of
\* predictions makes no transition of the forecast chart and writes nothing
EmptyPredictionsKeepChart ==
    [][\A resp \in PredictionsResponses :
          (/\ resp.t = "response"
           /\ resp.body.t = "obj"
           /\ resp.body.predictions = Arr(<< >>)
           /\ loadPredictions(resp)) =>
              UNCHANGED << dom, forecastChart, liveCharts >>
      ]_vars

\* what the dashboard shows: the elements, the chart handles and the charts
\* alive on each canvas
View ==
    [dom |-> dom, forecastChart |-> forecastChart, historyChart |-> historyChart,
     liveCharts |-> liveCharts]

\* the processing step of each source of chat.js, as a function of what is
\* shown and of the answer
CurrentStep(v, resp) == [v EXCEPT !.dom = AfterCurrent(v.dom, resp)]
PredictionsStep(v, resp) ==
    IF PredictionsShown(resp)
    THEN [v EXCEPT
            !.dom = [v.dom EXCEPT !.avgPM25 = ToFixed1(Average(resp.body.predictions.v))],
            !.forecastChart = ForecastChartOf(resp.body.predictions.v,
                                 v.forecastChart, v.liveCharts["forecastChart"]),
            !.liveCharts = [v.liveCharts EXCEPT !["forecastChart"] =
                               LiveAfterRender(v.forecastChart, @)]]
    ELSE v
HistoryStep(v, resp) ==
    IF HistoryShown(resp)
    THEN [v EXCEPT
            !.historyChart = HistoryChartOf(resp.body.history.v,
                                v.historyChart, v.liveCharts["historyChart"]),
            !.liveCharts = [v.liveCharts EXCEPT !["historyChart"] =
                               LiveAfterRender(v.historyChart, @)]]
    ELSE v

\* each loader is the step function of its source
LoadersAreSteps ==
    /\ AnswerOf("current") =>
          \A r \in CurrentResponses :
              loadCurrentAndStatus(r) => View' = CurrentStep(View, r)
    /\ AnswerOf("predictions") =>
          \A p \in PredictionsResponses :
              loadPredictions(p) => View' = PredictionsStep(View, p)
    /\ AnswerOf("history") =>
          \A h \in HistoryResponses :
              loadHistory(h) => View' = HistoryStep(View, h)

\* the answers of sources a and b of one cycle are both outstanding, and no
\* answer of another cycle is
OneCycleWith(a, b) ==
    /\ \A s \in Sources : pending[s] <= 1
    /\ pending[a] = 1
    /\ pending[b] = 1

\* processing two answers of different sources gives the same in both orders
StepsCommute ==
    /\ OneCycleWith("current", "predictions") =>
          \A r \in CurrentResponses :
              LET vr == CurrentStep(View, r)
              IN  \A p \in PredictionsResponses :
                      PredictionsStep(vr, p) = CurrentStep(PredictionsStep(View, p), r)
    /\ OneCycleWith("current", "history") =>
          \A r \in CurrentResponses :
              LET vr == CurrentStep(View, r)
              IN  \A h \in HistoryResponses :
                      HistoryStep(vr, h) = CurrentStep(HistoryStep(View, h), r)
    /\ OneCycleWith("predictions", "history") =>
          \A p \in PredictionsResponses :
              LET vp == PredictionsStep(View, p)
              IN  \A h \in HistoryResponses :
                      HistoryStep(vp, h) = PredictionsStep(HistoryStep(View, h), p)

\* C14: the answers of one cycle may be processed in any order and what is
\* shown after all of them is the same for every order. Each loader is the
\* step function of its source, and in every state in which two answers of
\* one cycle are outstanding, processing them in one order gives what
\* processing them in the other order gives; the orders of three answers
\* differ by exchanges of neighbours.
C14_OrderInsensitive == [][LoadersAreSteps]_vars /\ []StepsCommute

\* the processing steps of the four sources of part_000
CurrentStep_p0(v, resp) == [v EXCEPT !.dom = AfterCurrent_p0(v.dom, resp)]
PredictionsStep_p0(v, resp) ==
    IF PredictionsShown_p0(resp) THEN PredictionsStep(v, resp) ELSE v
HistoryStep_p0(v, resp) ==
    IF HistoryShown_p0(resp)
    THEN [v EXCEPT
            !.historyChart = HistoryChartOf_p0(resp.body.history.v,
                                v.historyChart, v.liveCharts["historyChart"]),
            !.liveCharts = [v.liveCharts EXCEPT !["historyChart"] =
                               LiveAfterRender(v.historyChart, @)]]
    ELSE v
StatusStep_p0(v, resp) ==
    IF resp.t = "response" /\ resp.body.t = "obj" /\ Truthy(resp.body.status)
    THEN [v EXCEPT !.dom = [v.dom EXCEPT !.healthAdvice =
                               [t |-> "html", p |-> resp.body.status.v]]]
    ELSE v

\* the step of source s of part_000 and the answers it may get
Step_p0(s, v, resp) ==
    CASE s = "current" -> CurrentStep_p0(v, resp)
      [] s = "predictions" -> PredictionsStep_p0(v, resp)
      [] s = "history" -> HistoryStep_p0(v, resp)
      [] s = "status" -> StatusStep_p0(v, resp)
ResponsesOf(s) ==
    CASE s = "current" -> CurrentResponses
      [] s = "predictions" -> PredictionsResponses
      [] s = "history" -> HistoryResponses
      [] s = "status" -> StatusResponses

\* C14 for part_000: its loaders are the step functions of its sources, and
\* two outstanding answers of one cycle give the same in both orders
OrderInsensitive_p0 ==
    /\ [][/\ AnswerOf("current") =>
               \A r \in CurrentResponses :
                   loadCurrentData_p0(r) => View' = CurrentStep_p0(View, r)
          /\ AnswerOf("predictions") =>
               \A r \in PredictionsResponses :
                   loadPredictions_p0(r) => View' = PredictionsStep_p0(View, r)
          /\ AnswerOf("history") =>
               \A r \in HistoryResponses :
                   loadHistory_p0(r) => View' = HistoryStep_p0(View, r)
          /\ AnswerOf("status") =>
               \A r \in StatusResponses :
                   loadHealthAdvice_p0(r) => View' = StatusStep_p0(View, r)
         ]_vars
    /\ [](\A a, b \in Sources_p0 :
            (a # b /\ pending[a] = 1 /\ pending[b] = 1
                   /\ \A s \in Sources_p0 : pending[s] <= 1) =>
                \A ra \in ResponsesOf(a) :
                    LET va == Step_p0(a, View, ra)
                    IN  \A rb \in ResponsesOf(b) :
                            Step_p0(b, va, rb) = Step_p0(a, Step_p0(b, View, rb), ra))

\* all three answers of a cycle have been processed and each has written:
\* a reading with its trend, an average with its chart and a history chart
C14_Witness ==
    /\ \A s \in Sources : pending[s] = 0
    /\ dom.currentPM25.t = "fixed1"
    /\ dom.trendIndicator.t = "trend"
    /\ dom.avgPM25.t = "fixed1"
    /\ forecastChart.t = "chart"
    /\ historyChart.t = "chart"

\* the elements before anything is written
BlankDom == [e \in Elements |-> Markup]

\* the elements of the current source: those of the reading, and those of
\* the next-hour prediction
ReadingElements ==
    { "currentPM25", "currentStatus", "statusClass", "healthAdvice", "lastUpdate", "dot" }
NextHourElements == { "nextHourPM25", "trendIndicator" }

\* the elements es of d
Shown(d, es) == [e \in es |-> d[e]]

\* an answer of /api/current that writes: a reading or a startup payload
WritesReading(resp) == ReadingShown(resp) \/ StartupShown(resp)
\* one that carries a next-hour prediction with its reading
WritesNextHour(resp) ==
    ReadingShown(resp) /\ resp.body.next_hour_prediction.t = "num"

\* the average and the data of the forecast chart are those of the one
\* array of predictions of resp; the history chart is that of the one
\* history of resp
PredictionsFrom(resp, d, chart) ==
    /\ d.avgPM25 = ToFixed1(Average(resp.body.predictions.v))
    /\ chart.t = "chart"
    /\ chart.labels = ForecastLabels(resp.body.predictions.v)
    /\ chart.data = Values(resp.body.predictions.v, "predicted_pm25")
HistoryFrom(resp, chart) ==
    /\ chart.t = "chart"
    /\ chart.labels = HistoryLabels(EveryNth(resp.body.history.v, Stride))
    /\ chart.data = Values(EveryNth(resp.body.history.v, Stride), "pm25")

\* an answer of the predictions or history fetch replaces the fields of its
\* source by values of that answer alone, or leaves them all as they are
SeriesReplacedWhole ==
    /\ AnswerOf("predictions") =>
          \A p \in PredictionsResponses :
              loadPredictions(p) =>
                  IF PredictionsShown(p)
                  THEN PredictionsFrom(p, dom', forecastChart')
                  ELSE UNCHANGED << dom, forecastChart >>
    /\ AnswerOf("history") =>
          \A h \in HistoryResponses :
              loadHistory(h) =>
                  IF HistoryShown(h)
                  THEN HistoryFrom(h, historyChart')
                  ELSE UNCHANGED historyChart

----------------------------------------------------------------------------
(* The status classifier on its own: updateHealthStatus called with every  *)
(* value from 0 to a bound, in hundredths                                  *)

\* the largest value the classifier is called with: 56.00
MaxPM25 == 5600

\* a page as delivered and a value pm25 to classify
InitClassifier ==
    /\ InitChat
    /\ dom = [e \in Elements |-> Markup]
    /\ forecastChart = JNull
    /\ historyChart = JNull
    /\ liveCharts = [c \in { "forecastChart", "historyChart" } |-> {}]
    /\ current \in { Num(v) : v \in 0..MaxPM25 }
    /\ everSucceeded = FALSE
    /\ pending = [s \in Sources_p0 |-> 0]
    /\ last = [op |-> "init", kind |-> "init"]

\* the call updateHealthStatus(pm25) of line 118
callUpdateHealthStatus ==
    /\ dom.currentStatus = Markup
    /\ dom' = updateHealthStatus(dom, current.v)
    /\ UNCHANGED <<forecastChart, historyChart, liveCharts, pending, current, everSucceeded>>
    /\ UNCHANGED <<chatVars, last>>

NextClassifier == callUpdateHealthStatus

SpecClassifier == InitClassifier /\ [][NextClassifier]_vars

\* the advisory strings of the four categories
Advisories == { AdviceGood, AdviceModerate, AdviceSensitive, AdviceUnhealthy }

\* C16: the classifier gives every value from 0 upwards exactly one
\* category with inclusive upper bounds: at most 15.4 is Good, above 15.4
\* and at most 35.4 is Moderate, above 35.4 and at most 54.4 is Unhealthy
\* for Sensitive Groups, above 54.4 is Unhealthy; and each category has an
\* advisory string of its own. Values are in hundredths, so the smallest
\* value above a boundary is the boundary plus 0.01.
C16_ClassifierThresholds ==
    dom.currentStatus # Markup =>
        LET v == current.v
            status == dom.currentStatus.v
            advice == dom.healthAdvice.v
        IN  /\ dom.currentStatus.t = "text" /\ dom.healthAdvice.t = "text"
            /\ status \in { << "Good" >>, << "Moderate" >>,
                            << "Unhealthy for Sensitive" >>, << "Unhealthy" >> }
            /\ (status = << "Good" >>) <=> (v <= 1540)
            /\ (status = << "Moderate" >>) <=> (1540 < v /\ v <= 3540)
            /\ (status = << "Unhealthy for Sensitive" >>) <=> (3540 < v /\ v <= 5440)
            /\ (status = << "Unhealthy" >>) <=> (v > 5440)
            /\ (advice = AdviceGood) <=> (status = << "Good" >>)
            /\ (advice = AdviceModerate) <=> (status = << "Moderate" >>)
            /\ (advice = AdviceSensitive) <=> (status = << "Unhealthy for Sensitive" >>)
            /\ (advice = AdviceUnhealthy) <=> (status = << "Unhealthy" >>)
            /\ Cardinality(Advisories) = 4

\* the smallest value above the boundary of 35.4 has been classified, as
\* Unhealthy for Sensitive Groups
C16_Witness ==
    /\ current = Num(3541)
    /\ dom.currentStatus = Text(<< "Unhealthy for Sensitive" >>)
    /\ dom.healthAdvice = Text(AdviceSensitive)

\* the total of the predicted values of a series of predictions
RECURSIVE PredictedTotal(_)
PredictedTotal(a) ==
    IF a = << >> THEN 0 ELSE Head(a).predicted_pm25.v + PredictedTotal(Tail(a))

\* x, a number shown with one decimal, is the mean total / count as far as
\* one decimal shows it: it is at most 0.05 away from the mean
ShowsMean(x, total, count) ==
    /\ x.t = "fixed1"
    /\ ~x.neg
    /\ count > 0
    /\ 10 * count * x.tenths - total \in (-5 * count)..(5 * count)

\* C17: the displayed 24h average is the arithmetic mean of predicted_pm25
\* over all predictions of the processed response (10 and 20 give 15.0); an
\* empty sequence of predictions computes no average and leaves the element
\* as it is, so no average is displayed if none was ever computed, and the
\* sum is never divided by zero.
C17_AverageIsMean ==
    /\ [][AnswerOf("predictions") =>
            \A p \in PredictionsResponses :
                loadPredictions(p) =>
                    /\ p \in GoodPredictionsResponses =>
                          LET a == p.body.predictions.v
                          IN  /\ ShowsMean(dom'.avgPM25, PredictedTotal(a), Len(a))
                              /\ Values(a, "predicted_pm25") = << Num(1000), Num(2000) >>
                                    => dom'.avgPM25.tenths = 150
                    /\ (p.t = "response" /\ p.body.t = "obj"
                            /\ p.body.predictions = Arr(<< >>)) =>
                          dom'.avgPM25 = dom.avgPM25
         ]_vars
    /\ [](forecastChart = JNull => dom.avgPM25 = Markup)

\* the predictions 10 and 20 have been processed and 15.0 is displayed
C17_Witness ==
    /\ dom.avgPM25 = [t |-> "fixed1", neg |-> FALSE, tenths |-> 150]
    /\ forecastChart.t = "chart"
    /\ forecastChart.data = << Num(1000), Num(2000) >>

\* the elements of series a at the indices 0, stride, 2 * stride, ..., in
\* their order (the first element of a sequence is at index 0)
AtMultiplesOf(stride, a) ==
    [k \in 1..((Len(a) + stride - 1) \div stride) |-> a[(k - 1) * stride + 1]]

\* C18: the series of the history chart is exactly the subsequence of the
\* fetched history at the indices that are multiples of the stride, in the
\* original order (stride 2 over 5 elements keeps the indices 0, 2, 4;
\* stride 3 over 7 elements keeps 0, 3, 6), and the series of the forecast
\* chart is the predictions in full.
C18_HistoryDownsampled ==
    /\ [][/\ AnswerOf("history") =>
               \A h \in HistoryResponses :
                   (loadHistory(h) /\ HistoryShown(h)) =>
                       LET a == h.body.history.v
                       IN  /\ historyChart'.data = Values(AtMultiplesOf(Stride, a), "pm25")
                           /\ historyChart'.labels = HistoryLabels(AtMultiplesOf(Stride, a))
                           /\ Len(a) = 5 =>
                                 historyChart'.data = << a[1].pm25, a[3].pm25, a[5].pm25 >>
          /\ AnswerOf("predictions") =>
               \A p \in PredictionsResponses :
                   (loadPredictions(p) /\ PredictionsShown(p)) =>
                       LET a == p.body.predictions.v
                       IN  /\ Len(forecastChart'.data) = Len(a)
                           /\ \A i \in 1..Len(a) :
                                 forecastChart'.data[i] = a[i].predicted_pm25
         ]_vars
    /\ [](\A a \in HistoryArrays :
             /\ EveryNth(a, Stride_p0) = AtMultiplesOf(Stride_p0, a)
             /\ Len(a) = 7 => EveryNth(a, Stride_p0) = << a[1], a[4], a[7] >>)

\* C18 for part_000: the series of its history chart is the history at the
\* multiples of its stride
HistoryDownsampled_p0 ==
    [][AnswerOf("history") =>
          \A h \in HistoryResponses :
              (loadHistory_p0(h) /\ HistoryShown_p0(h)) =>
                  LET a == h.body.history.v
                  IN  /\ historyChart'.data = Values(AtMultiplesOf(Stride_p0, a), "pm25")
                      /\ Len(a) = 7 =>
                            historyChart'.data = << a[1].pm25, a[4].pm25, a[7].pm25 >>
      ]_vars

\* a history of 5 elements has been charted with its elements 0, 2 and 4,
\* and a series of 3 predictions with all of them
C18_Witness ==
    /\ historyChart.t = "chart"
    /\ historyChart.data = << Num(1100), Num(1300), Num(1500) >>
    /\ forecastChart.t = "chart"
    /\ Len(forecastChart.data) = 3

----------------------------------------------------------------------------
(* The trend on its own: readings whose value and next-hour prediction run *)
(* over a grid of values                                                   *)

\* the number of steps of 2.5 above 15.0 the values run through
MaxTrendSteps == 6

\* 15.0, 17.5, 20.0, 22.5, 25.0, 27.5, 30.0
TrendValues == { 1500 + 250 * k : k \in 0..MaxTrendSteps }

\* answers of /api/current that carry a value and a next-hour prediction
TrendReadings ==
    { Response(TRUE, CurrentBody(Undefined, Num(c), Iso(Dt(12, 8, 14, 30)), Num(n),
                                 StatusGood)) : c, n \in TrendValues }

NextTrend ==
    \/ loadDashboardData
    \/ \E resp \in TrendReadings : loadCurrentAndStatus(resp)

SpecTrend == InitDash /\ [][NextTrend]_vars

\* the colours of the trend indicator
WarningColour == "#ef4444"
FavourableColour == "#10b981"

\* C19: the trend of a reading is delta = next-hour prediction - current
\* value; it is shown rising exactly when delta > 0, so a delta of zero is
\* shown falling; rising has the warning colour and falling the favourable
\* one, and the amount shown is the size of delta (20 and 25 give 5.0
\* rising, 20 and 15 give 5.0 falling).
C19_TrendDirection ==
    [][AnswerOf("current") =>
          \A r \in TrendReadings :
              loadCurrentAndStatus(r) =>
                  LET delta == r.body.next_hour_prediction.v - r.body.current_pm25.v
                      size == IF delta < 0 THEN -delta ELSE delta
                      tr == dom'.trendIndicator
                  IN  /\ tr.t = "trend"
                      /\ (tr.icon = "up") <=> (delta > 0)
                      /\ (tr.icon = "down") <=> (delta <= 0)
                      /\ (tr.color = WarningColour) <=> (delta > 0)
                      /\ (tr.color = FavourableColour) <=> (delta <= 0)
                      /\ ShowsMean(tr.amount, size, 1)
                      /\ (r.body.current_pm25.v = 2000 /\ r.body.next_hour_prediction.v = 2500)
                            => (tr.icon = "up" /\ tr.amount.tenths = 50)
                      /\ (r.body.current_pm25.v = 2000 /\ r.body.next_hour_prediction.v = 1500)
                            => (tr.icon = "down" /\ tr.amount.tenths = 50)
      ]_vars

\* a reading of 20.0 with a prediction of 20.0 is on display: the delta is
\* zero and the trend is shown falling
C19_Witness ==
    /\ current = Num(2000)
    /\ dom.nextHourPM25 = [t |-> "fixed1", neg |-> FALSE, tenths |-> 200]
    /\ dom.trendIndicator.t = "trend"
    /\ dom.trendIndicator.icon = "down"
    /\ dom.trendIndicator.amount.tenths = 0

----------------------------------------------------------------------------
(* Claims about the messages of the chat log *)

\* the messages of a log that are no placeholders, in their order
IsSettled(m) == ~m.isLoading
Settled(l) == SelectSeq(l, IsSettled)

\* sequence p is the beginning of sequence l
IsPrefix(p, l) == Len(p) <= Len(l) /\ SubSeq(l, 1, Len(p)) = p

\* C20: resolving an exchange removes only the pending placeholder of that
\* exchange: the user messages and final bot messages that were in the log
\* are all still there, in their order, and the log holds one placeholder
\* fewer; this for every timing of the addMessage calls, also when a user
\* message and its placeholder are created in the same clock tick.
C20_OnlyPlaceholderRemoved ==
    [][last'.op = "resolve" =>
          /\ IsPrefix(Settled(log), Settled(log'))
          /\ Cardinality(Pending(log')) = Cardinality(Pending(log)) - 1
      ]_vars

\* the final bot messages of a log
FinalBotMessages(l) == { i \in 1..Len(l) : l[i].sender = "bot" /\ ~l[i].isLoading }

\* C21: every completion of a request adds exactly one final bot message to
\* the log, whatever the response payload is, also one that carries neither
\* a non-empty response nor an error: there is no completed exchange that
\* leaves the log without a new bot message.
C21_OneBotMessagePerExchange ==
    [][last'.op = "resolve" =>
          Cardinality(FinalBotMessages(log')) = Cardinality(FinalBotMessages(log)) + 1
      ]_vars

=============================================================================
